---- MODULE Spec2Model ----
(***************************************************************************)
(* A model of the console service of the shell emulator                   *)
(* (src/src/services/windows_console.py): the filesystem tree, the        *)
(* process working directory and the operations ls, cat, cd, cp, mv, rm;  *)
(* of the operations it inherits from src/src/services/base.py; and of    *)
(* the commands of src/src/main.py that call the service.                 *)
(*                                                                         *)
(* Strings are sequences of one-character strings, so that strip(),       *)
(* Path() parsing, resolve() and lower() are computed, not assumed.       *)
(* File contents are sequences of bytes (0..255); texts are sequences of  *)
(* code points.  The filesystem is a POSIX one without symbolic links.    *)
(***************************************************************************)
EXTENDS Integers, Sequences, FiniteSets, TLC

VARIABLES
    fs,       \* the tree: absolute path (sequence of names) -> node
    cwd,      \* the process working directory, as the path it was entered by
    dead,     \* how many trailing directories of cwd have been removed
    call,     \* the service call just made (operation and arguments)
    outcome,  \* "ok", or the exception the call raised
    ret,      \* the value the call returned
    log,      \* the levels of the log records the call emitted, in order
    pre,      \* fs, cwd and dead as they were when the call was made
    ncalls,   \* the number of service calls made so far
    lastCd,   \* what the last successful cd returned (at first: where the process started)
    removed,  \* what the last successful rm removed, until a cp or mv is made
    displaced, \* since the last successful cd, a successful mv or rm had the working
              \* directory or one of its ancestors as its source
    archived, \* the last zip or tar_dir that returned for an existing directory, and
              \* the tree it found, while nothing but unzip and untar has been called since
    process   \* the run of the program for the command just given: whether main left a
              \* Container in ctx.obj, the service operations the command called, whether
              \* it echoed a failure, and the exit status

vars == <<fs, cwd, dead, call, outcome, ret, log, pre, ncalls, lastCd, removed, displaced, archived, process>>

(***************************************************************************)
(* Bounds of the model.                                                    *)
(***************************************************************************)
MaxCalls == 2

(***************************************************************************)
(* Sequences and strings.                                                  *)
(***************************************************************************)
Last(s) == s[Len(s)]

Front(s) == SubSeq(s, 1, Len(s) - 1)

IsPrefix(p, q) == Len(p) <= Len(q) /\ SubSeq(q, 1, Len(p)) = p

\* the permutations of a finite set, as sequences
RECURSIVE SeqPerms(_)
SeqPerms(S) == IF S = {} THEN {<<>>} ELSE UNION {{<<x>> \o q : q \in SeqPerms(S \ {x})} : x \in S}

\* the code point of a character of the model's alphabet
Ord(c) ==
    CASE c = "\n" -> 10
      [] c = " " -> 32
      [] c = "." -> 46
      [] c = "/" -> 47
      [] c = "A" -> 65
      [] c = "B" -> 66
      [] c = "F" -> 70
      [] c = "a" -> 97
      [] c = "b" -> 98
      [] c = "c" -> 99
      [] c = "d" -> 100
      [] c = "f" -> 102
      [] c = "n" -> 110
      [] c = "~" -> 126

\* str < str, as Python compares strings: lexicographically by code point
RECURSIVE StrLess(_, _)
StrLess(a, b) ==
    IF b = <<>> THEN FALSE
    ELSE IF a = <<>> THEN TRUE
    ELSE IF Head(a) # Head(b) THEN Ord(Head(a)) < Ord(Head(b))
    ELSE StrLess(Tail(a), Tail(b))

IsSpace(c) == c \in {" ", "\n"}

RECURSIVE lstrip(_)
lstrip(s) == IF s # <<>> /\ IsSpace(Head(s)) THEN lstrip(Tail(s)) ELSE s

RECURSIVE rstrip(_)
rstrip(s) == IF s # <<>> /\ IsSpace(Last(s)) THEN rstrip(Front(s)) ELSE s

\* str.strip()
strip(s) == rstrip(lstrip(s))

lowerChar(c) == IF c = "A" THEN "a" ELSE IF c = "B" THEN "b" ELSE IF c = "F" THEN "f" ELSE c

\* str.lower()
lower(s) == [i \in 1..Len(s) |-> lowerChar(s[i])]

(***************************************************************************)
(* pathlib.Path: a parsed path is [abs, parts]; "." components and empty   *)
(* components are dropped when the path is built, ".." components are kept.*)
(***************************************************************************)
DotDot == <<".", ".">>

RECURSIVE split(_, _)
split(s, cur) ==
    IF s = <<>> THEN <<cur>>
    ELSE IF Head(s) = "/" THEN <<cur>> \o split(Tail(s), <<>>)
    ELSE split(Tail(s), Append(cur, Head(s)))

keepPart(c) == c # <<>> /\ c # <<".">>

Path(s) == [abs |-> s # <<>> /\ Head(s) = "/", parts |-> SelectSeq(split(s, <<>>), keepPart)]

\* Path.name
name(p) == IF p.parts = <<>> THEN <<>> ELSE Last(p.parts)

\* Path.parent
parent(p) == [p EXCEPT !.parts = IF @ = <<>> THEN <<>> ELSE Front(@)]

\* Path / name
joinpath(p, n) == IF n = <<>> THEN p ELSE [p EXCEPT !.parts = Append(@, n)]

RECURSIVE joinParts(_)
joinParts(parts) ==
    IF parts = <<>> THEN <<>>
    ELSE IF Len(parts) = 1 THEN Head(parts)
    ELSE Head(parts) \o <<"/">> \o joinParts(Tail(parts))

\* str(Path)
str(p) ==
    IF p.abs THEN <<"/">> \o joinParts(p.parts)
    ELSE IF p.parts = <<>> THEN <<".">>
    ELSE joinParts(p.parts)

\* an absolute path of the tree (a sequence of names) as a Path
AbsPath(names) == [abs |-> TRUE, parts |-> names]

\* the collapse of ".." by Path.resolve() on an absolute path without links
RECURSIVE normalize(_, _)
normalize(done, parts) ==
    IF parts = <<>> THEN done
    ELSE IF Head(parts) = DotDot
         THEN normalize(IF done = <<>> THEN <<>> ELSE Front(done), Tail(parts))
    ELSE normalize(Append(done, Head(parts)), Tail(parts))

(***************************************************************************)
(* The host filesystem.  A state of it is st = [fs, cwd, dead].  The       *)
(* working directory is a directory, not a path: when it (or an ancestor)  *)
(* is removed it lives on, empty and unlinked, and still knows its parent. *)
(* cwd keeps the path it had; its last `dead` components are the removed   *)
(* directories and the rest is its nearest ancestor still in the tree.     *)
(***************************************************************************)
Dir == [kind |-> "dir"]

File(data) == [kind |-> "file", data |-> data]

anchor(st) == SubSeq(st.cwd, 1, Len(st.cwd) - st.dead)

ENOENT == [err |-> "FileNotFoundError"]

ENOTDIR == [err |-> "NotADirectoryError"]

IsLoc(l) == "p" \in DOMAIN l

locIsDir(st, l) == l.d > 0 \/ st.fs[l.p].kind = "dir"

\* one component of a path walked by the kernel
step(st, l, c) ==
    IF ~IsLoc(l) THEN l
    ELSE IF ~locIsDir(st, l) THEN ENOTDIR
    ELSE IF c = DotDot
         THEN IF l.d > 0 THEN [l EXCEPT !.d = @ - 1]
              ELSE [l EXCEPT !.p = IF @ = <<>> THEN <<>> ELSE Front(@)]
    ELSE IF l.d > 0 THEN ENOENT
    ELSE IF Append(l.p, c) \in DOMAIN st.fs THEN [l EXCEPT !.p = Append(@, c)]
    ELSE ENOENT

RECURSIVE walkFrom(_, _, _)
walkFrom(st, l, parts) ==
    IF parts = <<>> THEN l ELSE walkFrom(st, step(st, l, Head(parts)), Tail(parts))

\* where the kernel finds path p: a location [p, d], or the error
walk(st, p) ==
    walkFrom(st, IF p.abs THEN [p |-> <<>>, d |-> 0] ELSE [p |-> anchor(st), d |-> st.dead], p.parts)

\* Path.exists()
exists(st, p) == IsLoc(walk(st, p))

\* Path.is_dir()
is_dir(st, p) == LET l == walk(st, p) IN IsLoc(l) /\ locIsDir(st, l)

\* Path.is_file()
is_file(st, p) == LET l == walk(st, p) IN IsLoc(l) /\ ~locIsDir(st, l)

\* the names os.scandir() finds in the directory at location l
children(st, l) ==
    IF l.d > 0 THEN {}
    ELSE {Last(q) : q \in {r \in DOMAIN st.fs : Len(r) = Len(l.p) + 1 /\ IsPrefix(l.p, r)}}

\* os.getcwd(): the path of the working directory, unless it was removed
getcwd(st) == IF st.dead > 0 THEN ENOENT ELSE [ok |-> st.cwd]

\* Path.resolve(): the canonical absolute path (a sequence of names), or the
\* error of os.getcwd() for a relative path
resolve(st, p) ==
    IF p.abs THEN [ok |-> normalize(<<>>, p.parts)]
    ELSE IF st.dead > 0 THEN ENOENT
    ELSE [ok |-> normalize(<<>>, st.cwd \o p.parts)]

(***************************************************************************)
(* What a call leaves behind: its outcome, its return value, the state of  *)
(* the filesystem and the log records it emitted.                          *)
(***************************************************************************)
None == <<"None">>

returns(st, value, records) ==
    [outcome |-> "ok", ret |-> value, fs |-> st.fs, cwd |-> st.cwd, dead |-> st.dead, log |-> records]

raises(st, exception, records) ==
    [outcome |-> exception, ret |-> None, fs |-> st.fs, cwd |-> st.cwd, dead |-> st.dead, log |-> records]

(***************************************************************************)
(* ls                                                                      *)
(***************************************************************************)
\* a sort key that compares the names as they are, capitals before small letters
sortKeyCaseSensitive(st, path, n) == [is_file |-> is_file(st, joinpath(path, n)), lowered |-> n]

\* the key of entries.sort(): (x.is_file(), x.name.lower())
sortKey(st, path, n) == [is_file |-> is_file(st, joinpath(path, n)), lowered |-> lower(n)]

\* tuple comparison of two keys (False < True)
keyLess(k1, k2) ==
    IF k1.is_file # k2.is_file THEN k2.is_file ELSE StrLess(k1.lowered, k2.lowered)

RECURSIVE insertByKey(_, _, _, _)
insertByKey(st, path, sorted, n) ==
    IF sorted = <<>> THEN <<n>>
    ELSE IF keyLess(sortKey(st, path, n), sortKey(st, path, Head(sorted))) THEN <<n>> \o sorted
    ELSE <<Head(sorted)>> \o insertByKey(st, path, Tail(sorted), n)

\* list.sort(key=...): a stable sort of the names in the order iterdir() gave them
RECURSIVE sortEntries(_, _, _)
sortEntries(st, path, entries) ==
    IF entries = <<>> THEN <<>>
    ELSE insertByKey(st, path, sortEntries(st, path, Front(entries)), Last(entries))

RECURSIVE digits(_)
digits(n) ==
    LET d == <<"0", "1", "2", "3", "4", "5", "6", "7", "8", "9">>[(n % 10) + 1]
    IN IF n < 10 THEN <<d>> ELSE Append(digits(n \div 10), d)

\* f"{s:>width}"
rjust(s, width) == [i \in 1..(IF Len(s) < width THEN width - Len(s) ELSE 0) |-> " "] \o s

\* what stat() reports: permission digits, size and formatted time
stat(st, l) ==
    IF locIsDir(st, l) THEN [mode |-> <<"7", "5", "5">>, size |-> 4096, mtime |-> <<"T">>]
    ELSE [mode |-> <<"6", "4", "4">>, size |-> Len(st.fs[l.p].data), mtime |-> <<"T">>]

SizeWidth == 10

\* a format_detailed whose line for an entry without stat() is that of an empty
\* file: type "-", no permissions, size 0
format_detailedAsEmptyFile(st, path, n, nostat) ==
    LET entry == joinpath(path, n)
        l == walk(st, entry)
        info == stat(st, l)
    IN IF n \in nostat \/ ~IsLoc(l)
       THEN [line |-> <<"-", "0", " ">> \o rjust(digits(0), SizeWidth) \o <<" ", "T", " ">>
                       \o n \o <<"\n">>,
             log |-> <<"warning">>]
       ELSE [line |-> <<IF is_dir(st, entry) THEN "d" ELSE "-">> \o info.mode \o <<" ">>
                       \o rjust(digits(info.size), SizeWidth) \o <<" ">> \o info.mtime \o <<" ">>
                       \o n \o <<"\n">>,
             log |-> <<>>]

\* one line of the detailed listing; nostat: the entries whose stat() fails
format_detailed(st, path, n, nostat) ==
    LET entry == joinpath(path, n)
        l == walk(st, entry)
        info == stat(st, l)
    IN IF n \in nostat \/ ~IsLoc(l)
       THEN [line |-> <<"?", " ", "?", " ", "?", " ", "?", " ">> \o n \o <<"\n">>, log |-> <<"warning">>]
       ELSE [line |-> <<IF is_dir(st, entry) THEN "d" ELSE "-">> \o info.mode \o <<" ">>
                       \o rjust(digits(info.size), SizeWidth) \o <<" ">> \o info.mtime \o <<" ">>
                       \o n \o <<"\n">>,
             log |-> <<>>]

RECURSIVE concat(_)
concat(seqs) == IF seqs = <<>> THEN <<>> ELSE Head(seqs) \o concat(Tail(seqs))

\* a validation of ls that takes any existing path for a directory
lsCheckExistence(st, path) == IF ~exists(st, path) THEN "FileNotFoundError" ELSE ""

\* the validation of ls: the exception it raises, "" when it raises none
lsCheck(st, path) ==
    IF ~exists(st, path) THEN "FileNotFoundError"
    ELSE IF ~is_dir(st, path) THEN "NotADirectoryError"
    ELSE ""

\* order: the names of the directory in the order iterdir() yields them
lsResult(st, path_arg, display_mode, order, nostat) ==
    LET path == Path(path_arg)
        entries == sortEntries(st, path, order)
        detailed == [i \in 1..Len(entries) |-> format_detailed(st, path, entries[i], nostat)]
    IN IF lsCheck(st, path) # "" THEN raises(st, lsCheck(st, path), <<"error">>)
       ELSE IF display_mode = "simple"
            THEN returns(st, [i \in 1..Len(entries) |-> entries[i] \o <<"\n">>], <<"info">>)
       ELSE returns(st, [i \in 1..Len(entries) |-> detailed[i].line],
                    <<"info">> \o concat([i \in 1..Len(entries) |-> detailed[i].log]))

\* the names iterdir() yields for path_arg (none when ls does not get that far)
iterdir(st, path_arg) ==
    IF is_dir(st, Path(path_arg)) THEN children(st, walk(st, Path(path_arg))) ELSE {}

RECURSIVE ascending(_)
ascending(names) ==
    IF names = {} THEN <<>>
    ELSE LET first == CHOOSE n \in names : \A m \in names \ {n} : StrLess(n, m)
         IN <<first>> \o ascending(names \ {first})

reversed(s) == [i \in 1..Len(s) |-> s[Len(s) + 1 - i]]

\* the orders iterdir() yields the names in.  The filesystem chooses the order;
\* the sort of ls is stable, so its result shows of that order only which of two
\* entries with equal keys came first.  Two orders, each the reverse of the
\* other, put every two entries both ways round, and stand for all orders: no
\* three names of the model have equal keys.
iterdirOrders(names) == {ascending(names), reversed(ascending(names))}

(***************************************************************************)
(* cat                                                                     *)
(***************************************************************************)
\* bytes.decode("utf-8"), for sequences of one and two bytes
RECURSIVE utf8_valid(_)
utf8_valid(b) ==
    IF b = <<>> THEN TRUE
    ELSE IF b[1] < 128 THEN utf8_valid(Tail(b))
    ELSE IF b[1] >= 194 /\ b[1] <= 223 /\ Len(b) >= 2 /\ b[2] >= 128 /\ b[2] <= 191
         THEN utf8_valid(Tail(Tail(b)))
    ELSE FALSE

RECURSIVE utf8_decode(_)
utf8_decode(b) ==
    IF b = <<>> THEN <<>>
    ELSE IF b[1] < 128 THEN <<b[1]>> \o utf8_decode(Tail(b))
    ELSE <<(b[1] - 192) * 64 + (b[2] - 128)>> \o utf8_decode(Tail(Tail(b)))

\* str.encode("utf-8"), for code points below 2048
RECURSIVE utf8_encode(_)
utf8_encode(t) ==
    IF t = <<>> THEN <<>>
    ELSE IF t[1] < 128 THEN <<t[1]>> \o utf8_encode(Tail(t))
    ELSE <<192 + (t[1] \div 64), 128 + (t[1] % 64)>> \o utf8_encode(Tail(t))

CR == 13

LF == 10

\* the newline translation of a file opened in text mode with newline=None
RECURSIVE universal_newlines(_)
universal_newlines(t) ==
    IF t = <<>> THEN <<>>
    ELSE IF t[1] = CR /\ Len(t) >= 2 /\ t[2] = LF THEN <<LF>> \o universal_newlines(Tail(Tail(t)))
    ELSE IF t[1] = CR THEN <<LF>> \o universal_newlines(Tail(t))
    ELSE <<t[1]>> \o universal_newlines(Tail(t))

\* Path.read_text(encoding="utf-8")
read_text(data) == universal_newlines(utf8_decode(data))

\* Path.read_bytes()
read_bytes(data) == data

\* a validation of cat that takes whatever is not a file for a directory
catCheckFile(st, path) == IF ~is_file(st, path) THEN "IsADirectoryError" ELSE ""

\* the validation of cat: the exception it raises, "" when it raises none
catCheck(st, path) ==
    IF ~exists(st, path) THEN "FileNotFoundError"
    ELSE IF is_dir(st, path) THEN "IsADirectoryError"
    ELSE ""

catResult(st, file, mode) ==
    LET path == Path(file)
        l == walk(st, path)
    IN IF catCheck(st, path) # "" THEN raises(st, catCheck(st, path), <<"info", "error">>)
       ELSE IF mode = "string"
            THEN IF utf8_valid(st.fs[l.p].data)
                 THEN returns(st, read_text(st.fs[l.p].data), <<"info", "debug", "info">>)
                 ELSE raises(st, "UnicodeDecodeError", <<"info", "debug">>)
       ELSE IF mode = "bytes"
            THEN returns(st, read_bytes(st.fs[l.p].data), <<"info", "debug", "info">>)
       ELSE raises(st, "ValueError", <<"info", "error">>)

(***************************************************************************)
(* cd                                                                      *)
(***************************************************************************)
\* the HOME of the process
Home == <<"/", "d">>

startswith(s, prefix) == IsPrefix(prefix, s)

\* os.path.expanduser() of "~" or "~/..."
expanduser(s) == (IF Last(Home) = "/" THEN Front(Home) ELSE Home) \o Tail(s)

\* a chdir that leaves the process where it is
chdirNowhere(st, p) == st

\* os.chdir(p), p an existing directory of the tree
chdir(st, p) == [st EXCEPT !.cwd = p, !.dead = 0]

cdResult(st, path_arg) ==
    LET current_dir == getcwd(st)
        tilde == path_arg = <<"~">> \/ startswith(path_arg, <<"~", "/">>)
        path_str == IF tilde THEN expanduser(path_arg) ELSE path_arg
        given == Path(path_str)
        target_path == IF given.abs THEN given.parts ELSE current_dir.ok \o given.parts
        resolved == normalize(<<>>, target_path)
        records == <<"info">> \o (IF tilde THEN <<"debug">> ELSE <<>>)
                   \o (IF given.abs THEN <<>> ELSE <<"debug">>) \o <<"debug">>
    IN IF "err" \in DOMAIN current_dir THEN raises(st, current_dir.err, <<>>)
       ELSE IF ~exists(st, AbsPath(resolved))
            THEN raises(st, "FileNotFoundError", Append(records, "error"))
       ELSE IF ~is_dir(st, AbsPath(resolved))
            THEN raises(st, "NotADirectoryError", Append(records, "error"))
       ELSE returns(chdir(st, resolved), str(AbsPath(resolved)), Append(records, "info"))

(***************************************************************************)
(* rm                                                                      *)
(***************************************************************************)
\* the working directory after the subtree at path p has left the tree
cwdAfterRemoval(st, p) ==
    IF IsPrefix(p, anchor(st)) THEN st.dead + (Len(anchor(st)) - Len(p)) + 1 ELSE st.dead

\* an rmtree that removes the directory and leaves what was below it
rmtreeShallow(st, p) ==
    [st EXCEPT !.fs = [q \in DOMAIN st.fs \ {p} |-> st.fs[q]], !.dead = cwdAfterRemoval(st, p)]

\* shutil.rmtree(p), p an existing directory of the tree
rmtree(st, p) ==
    [st EXCEPT !.fs = [q \in {r \in DOMAIN st.fs : ~IsPrefix(p, r)} |-> st.fs[q]],
               !.dead = cwdAfterRemoval(st, p)]

\* Path.unlink(), p an existing file of the tree
unlink(st, p) == [st EXCEPT !.fs = [q \in DOMAIN st.fs \ {p} |-> st.fs[q]]]

\* a refusal that compares the raw argument as it is, without strip()
forbiddenUnstripped(target) == target \in {DotDot, <<"/">>}

\* the raw argument rm refuses before resolving anything
forbidden(target) == strip(target) \in {DotDot, <<"/">>}

\* resolved == Path(resolved.anchor)
isRoot(resolved) == resolved = <<>>

\* an rm that removes directories whether recursive or not
refusesNothing(st, resolved, recursive) == FALSE

\* a directory is removed only with recursive=True
refusesDirectory(st, resolved, recursive) == is_dir(st, AbsPath(resolved)) /\ ~recursive

rmResult(st, target, recursive) ==
    LET path == Path(target)
        resolved == resolve(st, path)
        after == IF is_dir(st, AbsPath(resolved.ok)) THEN rmtree(st, resolved.ok)
                 ELSE unlink(st, resolved.ok)
    IN IF forbidden(target) THEN raises(st, "PermissionError", <<"info", "error">>)
       ELSE IF "err" \in DOMAIN resolved THEN raises(st, resolved.err, <<"info">>)
       ELSE IF isRoot(resolved.ok) THEN raises(st, "PermissionError", <<"info", "error">>)
       ELSE IF ~exists(st, AbsPath(resolved.ok))
            THEN raises(st, "FileNotFoundError", <<"info", "error">>)
       ELSE IF refusesDirectory(st, resolved.ok, recursive)
            THEN raises(st, "IsADirectoryError", <<"info", "error", "exception">>)
       ELSE returns(after, None, <<"info", "debug", "info">>)

(***************************************************************************)
(* The filesystem calls behind cp and mv.  Each yields [st, err]: the      *)
(* state it leaves and the exception it raised ("" when it succeeded).     *)
(***************************************************************************)
done(st) == [st |-> st, err |-> ""]

failed(st, exception) == [st |-> st, err |-> exception]

\* a path that names no new entry: ".", "/", or one ending in ".."
namesNothing(p) == p.parts = <<>> \/ Last(p.parts) = DotDot

put(st, q, node) == [st EXCEPT !.fs = [r \in DOMAIN st.fs \cup {q} |-> IF r = q THEN node ELSE st.fs[r]]]

\* os.mkdir(p)
mkdir(st, p) ==
    LET l == walk(st, parent(p))
    IN IF namesNothing(p)
       THEN (IF exists(st, p) THEN failed(st, "FileExistsError") ELSE failed(st, walk(st, p).err))
       ELSE IF ~IsLoc(l) THEN failed(st, l.err)
       ELSE IF ~locIsDir(st, l) THEN failed(st, "NotADirectoryError")
       ELSE IF exists(st, p) THEN failed(st, "FileExistsError")
       ELSE IF l.d > 0 THEN failed(st, "FileNotFoundError")
       ELSE done(put(st, Append(l.p, name(p)), Dir))

\* Path.mkdir(parents=True, exist_ok=True)
RECURSIVE PathMkdir(_, _)
PathMkdir(st, p) ==
    LET first == mkdir(st, p)
        up == PathMkdir(st, parent(p))
        again == mkdir(up.st, p)
    IN IF first.err = "" THEN first
       ELSE IF first.err = "FileNotFoundError"
            THEN IF p.parts = <<>> THEN first
                 ELSE IF up.err # "" THEN up
                 ELSE IF again.err = "" \/ is_dir(up.st, p) THEN done(again.st)
                 ELSE again
       ELSE IF is_dir(st, p) THEN done(st)
       ELSE first

\* os.makedirs(p, exist_ok): the missing parents are made first
RECURSIVE makedirs(_, _, _)
makedirs(st, p, exist_ok) ==
    LET head == parent(p)
        up == IF p.parts # <<>> /\ head.parts # <<>> /\ ~exists(st, head)
              THEN makedirs(st, head, TRUE) ELSE done(st)
        made == mkdir(up.st, p)
    IN IF up.err # "" THEN up
       ELSE IF made.err = "" THEN made
       ELSE IF exist_ok /\ is_dir(up.st, p) THEN done(up.st)
       ELSE made

\* shutil.copy2(src, dst), src an existing file
copy2(st, src, dst) ==
    LET target == IF is_dir(st, dst) THEN joinpath(dst, name(src)) ELSE dst
        from == walk(st, src)
        to == walk(st, target)
        dir == walk(st, parent(target))
    IN IF IsLoc(to) /\ to = from THEN failed(st, "SameFileError")
       ELSE IF IsLoc(to)
            THEN IF locIsDir(st, to) THEN failed(st, "IsADirectoryError")
                 ELSE done(put(st, to.p, st.fs[from.p]))
       ELSE IF ~IsLoc(dir) THEN failed(st, dir.err)
       ELSE IF ~locIsDir(st, dir) THEN failed(st, "NotADirectoryError")
       ELSE IF dir.d > 0 THEN failed(st, "FileNotFoundError")
       ELSE done(put(st, Append(dir.p, name(target)), st.fs[from.p]))

\* the tree of st with a copy of the subtree below `from` added below `to`
graft(st, tree, from, to) ==
    LET below == {q \in DOMAIN tree : IsPrefix(from, q) /\ q # from}
        image(q) == to \o SubSeq(q, Len(from) + 1, Len(q))
        added == {image(q) : q \in below}
        origin(r) == CHOOSE q \in below : image(q) = r
    IN [st EXCEPT !.fs = [r \in DOMAIN st.fs \cup added |->
                              IF r \in added THEN tree[origin(r)] ELSE st.fs[r]]]

\* shutil.copytree(src, dst), src an existing directory.  Each level is listed
\* before its copy is made, so a destination directly inside src is not copied
\* into itself; a destination inside a subdirectory src already has is, level
\* after level, until the interpreter's recursion limit ends the call
\* (RecursionError) with a tree hundreds of levels deep.
copytree(st, src, dst) ==
    LET from == walk(st, src)
        made == makedirs(st, dst, FALSE)
        to == walk(made.st, dst)
        inside == from.d = 0 /\ IsPrefix(from.p, to.p) /\ Len(to.p) > Len(from.p) + 1
                  /\ SubSeq(to.p, 1, Len(from.p) + 1) \in DOMAIN st.fs
    IN IF made.err # "" THEN made
       ELSE IF from.d > 0 THEN made
       ELSE IF inside THEN failed(made.st, "RecursionError")
       ELSE done(graft(made.st, st.fs, from.p, to.p))

(***************************************************************************)
(* cp                                                                      *)
(***************************************************************************)
\* the loop over src_path.iterdir() that copies into an existing directory
RECURSIVE copyChildren(_, _, _, _)
copyChildren(st, src_path, final_dst, order) ==
    LET child == joinpath(src_path, Head(order))
        target_child == joinpath(final_dst, Head(order))
        one == IF is_dir(st, child) THEN copytree(st, child, target_child)
               ELSE copy2(st, child, target_child)
    IN IF order = <<>> THEN done(st)
       ELSE IF one.err # "" THEN one
       ELSE copyChildren(one.st, src_path, final_dst, Tail(order))

\* a destination taken to lie inside dst whatever dst is
finalDstInside(st, src_path, dst_path) == joinpath(dst_path, name(src_path))

\* the destination cp and mv settle on
finalDst(st, src_path, dst_path) ==
    IF exists(st, dst_path) /\ is_dir(st, dst_path) THEN joinpath(dst_path, name(src_path))
    ELSE dst_path

\* whether cp copies the children of src one by one
merges(st, src, dst, recursive) ==
    /\ recursive
    /\ is_dir(st, Path(src))
    /\ is_dir(st, finalDst(st, Path(src), Path(dst)))

\* the end of the try block of cp and mv
finish(r, records) ==
    IF r.err = "" THEN returns(r.st, None, Append(records, "info"))
    ELSE raises(r.st, r.err, Append(records, "exception"))

\* a cp that copies directories whether recursive or not
alwaysRecursive(recursive) == FALSE

\* a directory is copied only with recursive=True
needsRecursive(recursive) == ~recursive

\* order: the children of src in the order iterdir() yields them
cpResult(st, src, dst, recursive, order) ==
    LET src_path == Path(src)
        dst_path == Path(dst)
        final_dst == finalDst(st, src_path, dst_path)
        parents == IF exists(st, parent(final_dst)) THEN done(st) ELSE PathMkdir(st, parent(final_dst))
    IN IF ~exists(st, src_path) THEN raises(st, "FileNotFoundError", <<"info", "error">>)
       ELSE IF is_dir(st, src_path)
            THEN IF needsRecursive(recursive)
                 THEN raises(st, "IsADirectoryError", <<"info", "error", "exception">>)
                 ELSE IF exists(st, final_dst)
                      THEN IF is_dir(st, final_dst)
                           THEN finish(copyChildren(st, src_path, final_dst, order), <<"info", "debug">>)
                           ELSE raises(st, "FileExistsError", <<"info", "debug", "exception">>)
                 ELSE finish(copytree(st, src_path, final_dst), <<"info", "debug">>)
       ELSE IF parents.err # "" THEN finish(parents, <<"info", "debug">>)
       ELSE finish(copy2(parents.st, src_path, final_dst), <<"info", "debug">>)

(***************************************************************************)
(* mv                                                                      *)
(***************************************************************************)
\* os.rename(src, dst) of an existing src onto the absolute path `to`: the
\* subtree moves, and with it the working directory when it lies inside
rename(st, from, to) ==
    LET moved == {q \in DOMAIN st.fs : IsPrefix(from, q)}
        image(q) == to \o SubSeq(q, Len(from) + 1, Len(q))
        kept == (DOMAIN st.fs \ moved) \ {to}
        landed == {image(q) : q \in moved}
        origin(r) == CHOOSE q \in moved : image(q) = r
    IN IF from = to THEN st
       ELSE [st EXCEPT !.fs = [r \in kept \cup landed |->
                                   IF r \in landed THEN st.fs[origin(r)] ELSE st.fs[r]],
                       !.cwd = IF IsPrefix(from, anchor(st)) THEN image(st.cwd) ELSE st.cwd]

\* shutil._destinsrc(src, dst), on the absolute forms of the two paths
destinsrc(from, to) == IsPrefix(from, to)

\* shutil.move(src, dst), src an existing file or directory that has a name
move(st, src, dst) ==
    LET into == is_dir(st, dst)
        same == walk(st, src) = walk(st, dst)
        real_dst == IF into THEN joinpath(dst, name(src)) ELSE dst
        from == walk(st, src)
        dir == walk(st, parent(real_dst))
        to == walk(st, real_dst)
        target == IF IsLoc(to) THEN to.p ELSE Append(dir.p, name(real_dst))
        srcIsDir == locIsDir(st, from)
        absent == ~IsLoc(dir) \/ dir.d > 0
        renames == /\ ~absent
                   /\ locIsDir(st, dir)
                   /\ ~(srcIsDir /\ IsPrefix(from.p, target) /\ from.p # target)
                   /\ ~(srcIsDir /\ IsLoc(to) /\ from.p # target)
        afterCopy == copytree(st, src, real_dst)
        afterFile == copy2(st, src, real_dst)
    IN IF into /\ same THEN done(st)
       ELSE IF into /\ exists(st, real_dst) THEN failed(st, "Error")
       ELSE IF renames THEN done(rename(st, from.p, target))
       ELSE IF srcIsDir
            THEN IF (~src.abs \/ ~dst.abs) /\ st.dead > 0 THEN failed(st, "FileNotFoundError")
                 ELSE IF destinsrc(resolve(st, src).ok, resolve(st, dst).ok) THEN failed(st, "Error")
                 ELSE IF afterCopy.err # "" THEN afterCopy
                 ELSE done(rmtree(afterCopy.st, from.p))
       ELSE IF afterFile.err # "" THEN afterFile
       ELSE done(unlink(afterFile.st, from.p))

mvResult(st, src, dst) ==
    LET src_path == Path(src)
        dst_path == Path(dst)
        final_dst == finalDst(st, src_path, dst_path)
        parents == PathMkdir(st, parent(final_dst))
    IN IF ~exists(st, src_path) THEN raises(st, "FileNotFoundError", <<"info", "error">>)
       ELSE IF parents.err # "" THEN finish(parents, <<"info", "debug">>)
       ELSE finish(move(parents.st, src_path, final_dst), <<"info", "debug">>)

(***************************************************************************)
(* zip, unzip, tar_dir, untar, grep.  WindowsConsoleService defines none   *)
(* of them: a call runs the method of OSConsoleServiceBase, whose body is  *)
(* `...`, so it reads nothing, writes nothing, logs nothing and returns    *)
(* None.                                                                   *)
(***************************************************************************)
zipResult(st, path, path_arch) == returns(st, None, <<>>)

unzipResult(st, path_arch, res) == returns(st, None, <<>>)

tar_dirResult(st, path_file, path_arch) == returns(st, None, <<>>)

untarResult(st, path_archive_tar_gz, res) == returns(st, None, <<>>)

grepResult(st, pattern, path, r, ignore_case) == returns(st, None, <<>>)

(***************************************************************************)
(* The state machine: one action per service call, and the return to the   *)
(* caller, after which the next call can be made.                          *)
(***************************************************************************)
\* the texts the files of the initial tree hold: "h\r\n", "a\rb", "B", U+0434 "\n"
TextF == <<104, CR, LF>>

TextA == <<97, CR, 98>>

TextB == <<66>>

TextFF == <<1076, LF>>

\* the tree the process starts in: /d/{c/, a, B}, /f and /F
InitialTree ==
    (<<>> :> Dir) @@ (<<<<"d">>>> :> Dir) @@ (<<<<"d">>, <<"c">>>> :> Dir)
    @@ (<<<<"d">>, <<"a">>>> :> File(utf8_encode(TextA)))
    @@ (<<<<"d">>, <<"B">>>> :> File(utf8_encode(TextB)))
    @@ (<<<<"f">>>> :> File(utf8_encode(TextF)))
    @@ (<<<<"F">>>> :> File(utf8_encode(TextFF)))

state == [fs |-> fs, cwd |-> cwd, dead |-> dead]

\* the value of `removed` when nothing has been removed (the root never is)
Nothing == <<>>

\* the value of `process` when no command has been given
NotStarted == [obj |-> FALSE, served |-> <<>>, echoed |-> FALSE, exit |-> 0]

Idle == [op |-> "idle"]

Init ==
    /\ fs = InitialTree
    /\ cwd \in {<<>>, <<<<"d">>>>, <<<<"d">>, <<"c">>>>}
    /\ dead = 0
    /\ call = Idle
    /\ outcome = "ok"
    /\ ret = None
    /\ log = <<>>
    /\ pre = state
    /\ ncalls = 0
    /\ lastCd = str(AbsPath(cwd))
    /\ removed = Nothing
    /\ displaced = FALSE
    /\ archived = Nothing
    /\ process = NotStarted

\* a call can be made
Ready == call = Idle /\ ncalls < MaxCalls

\* the absolute path of what the call c, made in state st, moves or removes
sourceOf(st, c) ==
    IF c.op = "rm" THEN resolve(st, Path(c.target)).ok ELSE walk(st, Path(c.src)).p

\* what `archived` becomes when the call c, made in state st, ends with `result`
archivedAfter(st, c, result) ==
    IF c.op \in {"zip", "tar_dir"}
    THEN IF result.outcome = "ok" /\ is_dir(st, Path(c.path))
         THEN [op |-> c.op, root |-> walk(st, Path(c.path)).p, path_arch |-> c.path_arch,
               tree |-> st.fs]
         ELSE Nothing
    ELSE IF c.op \in {"unzip", "untar"} THEN archived
    ELSE Nothing

\* the call c ends as r says; a call that copies a directory into itself is not
\* followed: the tree it leaves is deeper than any tree of the model
Apply(c, r) ==
    /\ \E result \in {r} :
        /\ result.outcome # "RecursionError"
        /\ call' = c
        /\ outcome' = result.outcome
        /\ ret' = result.ret
        /\ log' = result.log
        /\ fs' = result.fs
        /\ cwd' = result.cwd
        /\ dead' = result.dead
        /\ pre' = state
        /\ ncalls' = ncalls + 1
        /\ lastCd' = IF c.op = "cd" /\ result.outcome = "ok" THEN result.ret ELSE lastCd
        /\ removed' = IF c.op = "rm" /\ result.outcome = "ok" THEN resolve(state, Path(c.target)).ok
                       ELSE IF c.op \in {"cp", "mv"} THEN Nothing
                       ELSE removed
        /\ displaced' = IF c.op = "cd" /\ result.outcome = "ok" THEN FALSE
                         ELSE IF c.op \in {"mv", "rm"} /\ result.outcome = "ok"
                              THEN displaced \/ IsPrefix(sourceOf(state, c), anchor(state))
                         ELSE displaced
        /\ archived' = archivedAfter(state, c, result)
        /\ UNCHANGED process

DisplayModes == {"simple", "detailed"}

ReadModes == {"string", "bytes"}

\* the entries whose stat() may fail during a detailed listing: at most one
StatFailures(display_mode, names) ==
    IF display_mode = "detailed" THEN {{}} \cup {{n} : n \in names} ELSE {{}}

ls(path, display_mode) ==
    /\ Ready
    /\ \E order \in iterdirOrders(iterdir(state, path)) :
        \E nostat \in StatFailures(display_mode, iterdir(state, path)) :
            Apply([op |-> "ls", path |-> path, display_mode |-> display_mode, nostat |-> nostat],
                  lsResult(state, path, display_mode, order, nostat))

cat(file, mode) ==
    /\ Ready
    /\ Apply([op |-> "cat", file |-> file, mode |-> mode], catResult(state, file, mode))

cd(path) ==
    /\ Ready
    /\ Apply([op |-> "cd", path |-> path], cdResult(state, path))

cp(src, dst, recursive) ==
    /\ Ready
    /\ \E order \in SeqPerms(IF merges(state, src, dst, recursive) THEN iterdir(state, src) ELSE {}) :
        Apply([op |-> "cp", src |-> src, dst |-> dst, recursive |-> recursive],
              cpResult(state, src, dst, recursive, order))

mv(src, dst) ==
    /\ Ready
    /\ Apply([op |-> "mv", src |-> src, dst |-> dst], mvResult(state, src, dst))

rm(target, recursive) ==
    /\ Ready
    /\ Apply([op |-> "rm", target |-> target, recursive |-> recursive],
          rmResult(state, target, recursive))

zip(path, path_arch) ==
    /\ Ready
    /\ Apply([op |-> "zip", path |-> path, path_arch |-> path_arch],
             zipResult(state, path, path_arch))

unzip(path_arch, res) ==
    /\ Ready
    /\ Apply([op |-> "unzip", path_arch |-> path_arch, res |-> res],
             unzipResult(state, path_arch, res))

tar_dir(path_file, path_arch) ==
    /\ Ready
    /\ Apply([op |-> "tar_dir", path |-> path_file, path_arch |-> path_arch],
             tar_dirResult(state, path_file, path_arch))

untar(path_archive_tar_gz, res) ==
    /\ Ready
    /\ Apply([op |-> "untar", path_arch |-> path_archive_tar_gz, res |-> res],
             untarResult(state, path_archive_tar_gz, res))

grep(pattern, path, r, ignore_case) ==
    /\ Ready
    /\ Apply([op |-> "grep", pattern |-> pattern, path |-> path, r |-> r,
              ignore_case |-> ignore_case],
             grepResult(state, pattern, path, r, ignore_case))

\* the caller has the result; the service is ready for the next call
Return ==
    /\ call # Idle
    /\ call' = Idle
    /\ outcome' = "ok"
    /\ ret' = None
    /\ log' = <<>>
    /\ pre' = state
    /\ UNCHANGED <<fs, cwd, dead, ncalls, lastCd, removed, displaced, archived, process>>

\* the arguments the calls are made with
LsArgs == {<<"/">>, <<".">>, <<".", ".">>, <<"/", "d">>, <<"c">>, <<"/", "f">>, <<"/", "n">>}

CatArgs == {<<"/", "f">>, <<"F">>, <<"/", "d", "/", "a">>, <<"a">>, <<"/", "d">>, <<"/", "n">>}

CdArgs == {<<".", ".">>, <<".">>, <<"~">>, <<"/">>, <<"/", "d">>, <<"c">>, <<"/", "f">>, <<"/", "n">>, <<"f", "/", ".", ".">>, <<".", ".", "/", ".", ".">>}

RmArgs == {<<".", ".">>, <<"/">>, <<" ", ".", ".", " ">>, <<".">>, <<".", ".", "/">>, <<"/", ".", ".">>, <<"/", "d">>, <<"c">>, <<"/", "d", "/", "a">>, <<"/", "f">>, <<"/", "n">>}

SrcArgs == {<<"/", "d">>, <<"/", "f">>, <<"a">>, <<"/", "d", "/", "c">>, <<"/", "n">>}

DstArgs == {<<"/", "d">>, <<"/", "n">>, <<"/", "f">>, <<"/", "d", "/", "c">>, <<".">>, <<"/", "d", "/", "n", "/", "n">>,
            <<"/", "d", "/", "f">>}

\* directories to pack: an existing one, a file, a path that does not exist
PackArgs == {<<"/", "d">>, <<"/", "f">>, <<"/", "n">>}

ArchiveArgs == {<<"/", "z">>}

\* directories to unpack into
ResArgs == {<<"/", "n">>}

\* patterns to search for: a regular expression, and one that does not compile
GrepPatterns == {<<"a">>, <<"[">>}

GrepArgs == {<<"/", "d", "/", "a">>, <<"/", "f">>}

Next ==
    \/ \E path \in LsArgs, display_mode \in DisplayModes : ls(path, display_mode)
    \/ \E file \in CatArgs, mode \in ReadModes : cat(file, mode)
    \/ \E path \in CdArgs : cd(path)
    \/ \E src \in SrcArgs, dst \in DstArgs, recursive \in BOOLEAN : cp(src, dst, recursive)
    \/ \E src \in SrcArgs, dst \in DstArgs : mv(src, dst)
    \/ \E target \in RmArgs, recursive \in BOOLEAN : rm(target, recursive)
    \/ \E path \in PackArgs, path_arch \in ArchiveArgs : zip(path, path_arch)
    \/ \E path_arch \in ArchiveArgs, res \in ResArgs : unzip(path_arch, res)
    \/ \E path_file \in PackArgs, path_arch \in ArchiveArgs : tar_dir(path_file, path_arch)
    \/ \E path_archive_tar_gz \in ArchiveArgs, res \in ResArgs : untar(path_archive_tar_gz, res)
    \/ \E pattern \in GrepPatterns, path \in GrepArgs : grep(pattern, path, FALSE, FALSE)
    \/ Return

Spec == Init /\ [][Next]_vars

(***************************************************************************)
(* The command dispatcher (src/src/main.py).  A command is one run of the  *)
(* program: typer calls main, which constructs the service, and then the   *)
(* function of the command, which calls the service and prints.            *)
(***************************************************************************)
\* the methods OSConsoleServiceBase declares with @abstractmethod
Interface == {"ls", "cat", "cd", "cp", "mv", "rm", "zip", "unzip", "tar_dir", "untar", "grep"}

\* the methods WindowsConsoleService defines
Defined == {"__init__", "format_detailed", "ls", "cat", "cd", "cp", "mv", "rm"}

\* WindowsConsoleService(logger=logger): the exception it raises, "" when it
\* raises none.  A class that leaves abstract methods of its base undefined
\* cannot be instantiated.
construct == IF Interface \subseteq Defined THEN "" ELSE "TypeError"

\* the exceptions of the model that are OSError
OSErrors == {"FileNotFoundError", "NotADirectoryError", "IsADirectoryError", "PermissionError",
             "FileExistsError", "SameFileError", "Error"}

\* the run of the command c ends: the service left what r says; the working
\* directory a cd command set was that of the program, which has ended
Run(c, r, proc) ==
    /\ call' = c
    /\ outcome' = r.outcome
    /\ ret' = r.ret
    /\ log' = r.log
    /\ fs' = r.fs
    /\ cwd' = IF c.op = "cd" THEN cwd ELSE r.cwd
    /\ dead' = r.dead
    /\ pre' = state
    /\ ncalls' = ncalls + 1
    /\ process' = proc
    /\ UNCHANGED <<lastCd, removed, displaced, archived>>

\* main raised: the exception is not caught and ends the program
uncaught(exception) == [obj |-> FALSE, served |-> <<>>, echoed |-> FALSE, exit |-> 1]

\* the function of a command after its one service call `operation` ended as r:
\* an OSError is echoed, any other exception is raised again
handled(c, operation, r) ==
    Run(c, r, [obj |-> TRUE, served |-> <<operation>>, echoed |-> r.outcome \in OSErrors,
               exit |-> IF r.outcome = "ok" \/ r.outcome \in OSErrors THEN 0 ELSE 1])

\* the function of the grep command: `for i in res`, every exception echoed
printed(c, operation, r) ==
    Run(c, IF r.outcome = "ok" /\ r.ret = None THEN raises(state, "TypeError", r.log) ELSE r,
        [obj |-> TRUE, served |-> <<operation>>, echoed |-> ~(r.outcome = "ok" /\ r.ret # None),
         exit |-> 0])

\* a command that returns before it calls the service, with a message
refused(c) ==
    Run(c, returns(state, None, <<>>), [obj |-> TRUE, served |-> <<>>, echoed |-> TRUE, exit |-> 0])

\* main, the callback typer calls before the function of every command: the
\* exception it raises, "" when it leaves a Container in ctx.obj
main == construct

\* main raised: the function of the command c is not called
halted(c) == Run(c, raises(state, main, <<>>), uncaught(main))

lsCommand(path, detailed) ==
    LET c == [op |-> "ls", path |-> path, detailed |-> detailed]
        dm == IF detailed THEN "detailed" ELSE "simple"
        arg == str(Path(path))
    IN /\ Ready
       /\ IF main # "" THEN halted(c)
          ELSE \E order \in iterdirOrders(iterdir(state, arg)) :
                \E nostat \in StatFailures(dm, iterdir(state, arg)) :
                    handled(c, "ls", lsResult(state, arg, dm, order, nostat))

catCommand(path, mode) ==
    LET c == [op |-> "cat", path |-> path, mode |-> mode]
        read_mode == IF mode THEN "bytes" ELSE "string"
    IN /\ Ready
       /\ IF main # "" THEN halted(c)
          ELSE handled(c, "cat", catResult(state, str(Path(path)), read_mode))

cdCommand(path) ==
    LET c == [op |-> "cd", path |-> path]
    IN /\ Ready
       /\ IF main # "" THEN halted(c)
          ELSE handled(c, "cd", cdResult(state, path))

cpCommand(path1, path2, r) ==
    LET c == [op |-> "cp", path1 |-> path1, path2 |-> path2, r |-> r]
        src == str(Path(path1))
        dst == str(Path(path2))
    IN /\ Ready
       /\ IF main # "" THEN halted(c)
          ELSE \E order \in SeqPerms(IF merges(state, src, dst, r) THEN iterdir(state, src) ELSE {}) :
                handled(c, "cp", cpResult(state, src, dst, r, order))

mvCommand(path1, path2) ==
    LET c == [op |-> "mv", path1 |-> path1, path2 |-> path2]
    IN /\ Ready
       /\ IF main # "" THEN halted(c)
          ELSE handled(c, "mv", mvResult(state, str(Path(path1)), str(Path(path2))))

\* str.lower() and str.strip() on the code points of an answer
lowerCodes(t) == [i \in 1..Len(t) |-> IF t[i] >= 1040 /\ t[i] <= 1071 THEN t[i] + 32 ELSE t[i]]

RECURSIVE stripCodes(_)
stripCodes(t) ==
    IF t = <<>> THEN t
    ELSE IF Head(t) = 32 THEN stripCodes(Tail(t))
    ELSE IF Last(t) = 32 THEN stripCodes(Front(t))
    ELSE t

\* the answers that confirm the removal of a directory: U+0434 U+0430
Confirming == {<<1076, 1072>>}

rmCommand(path, r, answer) ==
    LET c == [op |-> "rm", path |-> path, r |-> r, answer |-> answer]
        p == Path(path)
    IN /\ Ready
       /\ IF main # "" THEN halted(c)
          ELSE IF is_dir(state, p) /\ ~r THEN refused(c)
          ELSE IF is_dir(state, p) /\ r /\ lowerCodes(stripCodes(answer)) \notin Confirming
               THEN refused(c)
          ELSE IF ~exists(state, p) THEN refused(c)
          ELSE handled(c, "rm", rmResult(state, str(p), r))

zipCommand(path, path_arch) ==
    LET c == [op |-> "zip", path |-> path, path_arch |-> path_arch]
    IN /\ Ready
       /\ IF main # "" THEN halted(c)
          ELSE handled(c, "zip", zipResult(state, str(Path(path)), str(Path(path_arch))))

unzipCommand(path_arch, res) ==
    LET c == [op |-> "unzip", path_arch |-> path_arch, res |-> res]
    IN /\ Ready
       /\ IF main # "" THEN halted(c)
          ELSE handled(c, "unzip", unzipResult(state, str(Path(path_arch)), str(Path(res))))

tarCommand(path, path_arch) ==
    LET c == [op |-> "tar", path |-> path, path_arch |-> path_arch]
    IN /\ Ready
       /\ IF main # "" THEN halted(c)
          ELSE handled(c, "tar_dir", tar_dirResult(state, str(Path(path)), str(Path(path_arch))))

untarCommand(path_arch, res) ==
    LET c == [op |-> "untar", path_arch |-> path_arch, res |-> res]
    IN /\ Ready
       /\ IF main # "" THEN halted(c)
          ELSE handled(c, "untar", untarResult(state, str(Path(path_arch)), str(Path(res))))

grepCommand(pattern, path, r, ignore_case) ==
    LET c == [op |-> "grep", pattern |-> pattern, path |-> path, r |-> r, ignore_case |-> ignore_case]
    IN /\ Ready
       /\ IF main # "" THEN halted(c)
          ELSE printed(c, "grep", grepResult(state, pattern, str(Path(path)), r, ignore_case))

\* what is typed at the prompt of rm: "да", " ДА", "нет", as code points
Answers == {<<1076, 1072>>, <<32, 1044, 1040>>, <<1085, 1077, 1090>>}

NextCommand ==
    \/ \E path \in LsArgs, detailed \in BOOLEAN : lsCommand(path, detailed)
    \/ \E path \in CatArgs, mode \in BOOLEAN : catCommand(path, mode)
    \/ \E path \in CdArgs : cdCommand(path)
    \/ \E path1 \in SrcArgs, path2 \in DstArgs, r \in BOOLEAN : cpCommand(path1, path2, r)
    \/ \E path1 \in SrcArgs, path2 \in DstArgs : mvCommand(path1, path2)
    \/ \E path \in RmArgs, r \in BOOLEAN, answer \in Answers : rmCommand(path, r, answer)
    \/ \E path \in PackArgs, path_arch \in ArchiveArgs : zipCommand(path, path_arch)
    \/ \E path_arch \in ArchiveArgs, res \in ResArgs : unzipCommand(path_arch, res)
    \/ \E path \in PackArgs, path_arch \in ArchiveArgs : tarCommand(path, path_arch)
    \/ \E path_arch \in ArchiveArgs, res \in ResArgs : untarCommand(path_arch, res)
    \/ \E pattern \in GrepPatterns, path \in GrepArgs : grepCommand(pattern, path, FALSE, FALSE)
    \/ Return

SpecCommands == Init /\ [][NextCommand]_vars

(***************************************************************************)
(* Properties.  Each is stated over the call just made: `call` and its     *)
(* arguments, `pre` (the filesystem and working directory it found) and    *)
(* what it left: outcome, ret, fs, cwd, dead.                              *)
(***************************************************************************)
before(path_arg) == walk(pre, Path(path_arg))

treeUnchanged == fs = pre.fs

allUnchanged == fs = pre.fs /\ cwd = pre.cwd /\ dead = pre.dead

onlySpaces(s) == \A i \in 1..Len(s) : s[i] \in {" ", "\n"}

\* s is `core` with nothing but whitespace before and after it
trimsTo(s, core) ==
    \E i \in 0..Len(s) :
        /\ i + Len(core) <= Len(s)
        /\ onlySpaces(SubSeq(s, 1, i))
        /\ SubSeq(s, i + 1, i + Len(core)) = core
        /\ onlySpaces(SubSeq(s, i + Len(core) + 1, Len(s)))

rawRefused(target) == trimsTo(target, DotDot) \/ trimsTo(target, <<"/">>)

resolvesToRoot(target) == resolve(pre, Path(target)) = [ok |-> <<>>]

\* C1: rm raises PermissionError and removes nothing whenever its raw argument,
\* whitespace trimmed, is ".." or "/", and whenever its argument resolves to the
\* root, for every working directory, every value of recursive and every tree;
\* and the root directory exists in every state.
C1_RmRefusesParentAndRoot ==
    /\ <<>> \in DOMAIN fs /\ fs[<<>>] = Dir
    /\ (call.op = "rm" /\ (rawRefused(call.target) \/ resolvesToRoot(call.target)))
           => (outcome = "PermissionError" /\ allUnchanged)

C1_Witness ==
    /\ call.op = "rm" /\ call.target = <<" ", ".", ".", " ">> /\ call.recursive
    /\ pre.cwd = <<<<"d">>, <<"c">>>>
    /\ outcome = "PermissionError"
    /\ <<<<"d">>>> \in DOMAIN fs

\* C2: cp without recursive of a source that is an existing directory raises
\* IsADirectoryError, whatever the destination is, and leaves the whole tree as
\* it was.
C2_CpDirectoryNeedsRecursive ==
    (call.op = "cp" /\ ~call.recursive /\ is_dir(pre, Path(call.src)))
        => (outcome = "IsADirectoryError" /\ allUnchanged)

C2_Witness ==
    /\ call.op = "cp" /\ ~call.recursive
    /\ call.src = <<"/", "d">> /\ call.dst = <<"/", "n">>
    /\ outcome = "IsADirectoryError"
    /\ <<<<"n">>>> \notin DOMAIN fs

\* the direct children of the directory at location l of the tree ls found
childrenBefore(l) ==
    IF l.d > 0 THEN {} ELSE {q \in DOMAIN pre.fs : Len(q) = Len(l.p) + 1 /\ SubSeq(q, 1, Len(l.p)) = l.p}

\* C3: ls in simple mode of an existing directory succeeds and returns exactly
\* one line per direct child, the child's name followed by a newline, every
\* directory before every file and, among the directories and among the files,
\* the names in ascending order when compared without regard to case.
C3_LsSimpleListing ==
    (call.op = "ls" /\ call.display_mode = "simple" /\ is_dir(pre, Path(call.path)))
        => LET l == before(call.path)
               kids == childrenBefore(l)
               nameAt(i) == Front(ret[i])
               isFileAt(i) == pre.fs[Append(l.p, nameAt(i))].kind = "file"
           IN /\ outcome = "ok"
              /\ Len(ret) = Cardinality(kids)
              /\ \A q \in kids : \E i \in 1..Len(ret) : ret[i] = Append(Last(q), "\n")
              /\ \A i \in 1..Len(ret) : \E q \in kids : ret[i] = Append(Last(q), "\n")
              /\ \A i, j \in 1..Len(ret) :
                    i < j => /\ ~(isFileAt(i) /\ ~isFileAt(j))
                             /\ isFileAt(i) = isFileAt(j)
                                    => ~StrLess(lower(nameAt(j)), lower(nameAt(i)))

C3_Witness ==
    /\ call.op = "ls" /\ call.display_mode = "simple" /\ call.path = <<".">>
    /\ pre.cwd = <<<<"d">>>>
    /\ ret = << <<"c", "\n">>, <<"a", "\n">>, <<"B", "\n">> >>

\* the texts written to the files of the tree
Texts == {TextF, TextA, TextB, TextFF}

\* C4: cat of a file holding the UTF-8 encoding of a text T returns exactly T in
\* text mode, and cat of a file holding the bytes B returns exactly B in binary
\* mode, carriage returns and CR-LF line endings included.
C4_CatRoundTrip ==
    (call.op = "cat" /\ is_file(pre, Path(call.file)))
        => LET data == pre.fs[before(call.file).p].data
           IN /\ outcome = "ok"
              /\ call.mode = "bytes" => ret = data
              /\ call.mode = "string" => \A T \in Texts : data = utf8_encode(T) => ret = T

\* C5 as stated: after every call the working directory is the path the last
\* successful cd returned (the path the process started in when none has), and
\* no call but cd changes it.
C5_CwdIsLastCd ==
    /\ dead = 0
    /\ str(AbsPath(cwd)) = lastCd
    /\ call.op \in {"ls", "cat", "cp", "mv", "rm"} => (cwd = pre.cwd /\ dead = pre.dead)

\* C5, amended: a successful cd makes the path it returns the working directory;
\* a cd that raises leaves the working directory alone, and so do ls, cat and cp;
\* mv and rm leave it alone unless they succeed on the working directory or one
\* of its ancestors, which moves it to a new path or removes it.  So the working
\* directory is the path the last successful cd returned (the path the process
\* started in when none has) as long as no such mv or rm has been made since.
C5_CwdFollowsCdMvRm ==
    /\ ~displaced => (dead = 0 /\ str(AbsPath(cwd)) = lastCd)
    /\ (call.op = "cd" /\ outcome = "ok")
           => (dead = 0 /\ ret = str(AbsPath(cwd)) /\ lastCd = ret /\ ~displaced /\ treeUnchanged)
    /\ (call.op = "cd" /\ outcome # "ok") => allUnchanged
    /\ call.op \in {"ls", "cat", "cp"} => (cwd = pre.cwd /\ dead = pre.dead)
    /\ (call.op \in {"mv", "rm"} /\ (cwd # pre.cwd \/ dead # pre.dead))
           => (outcome = "ok" /\ IsPrefix(sourceOf(pre, call), anchor(pre)))
    /\ (call.op = "mv" /\ cwd # pre.cwd)
           => LET src == sourceOf(pre, call)
                  below == SubSeq(pre.cwd, Len(src) + 1, Len(pre.cwd))
              IN /\ dead = pre.dead
                 /\ src \notin DOMAIN fs
                 /\ \E to \in DOMAIN fs \ DOMAIN pre.fs : fs[to] = Dir /\ cwd = to \o below
                 /\ anchor(state) \in DOMAIN fs
    /\ (call.op = "rm" /\ dead # pre.dead) => (cwd = pre.cwd /\ dead > pre.dead /\ cwd \notin DOMAIN fs)

C5_Witness ==
    /\ call.op = "mv" /\ outcome = "ok"
    /\ pre.cwd = <<<<"d">>>> /\ cwd = <<<<"n">>>>
    /\ lastCd = <<"/", "d">>
    /\ displaced

\* C6: cd("..") succeeds from every working directory: from a directory that is
\* not the root it returns the path of its parent and makes it the working
\* directory, and at the root it leaves the working directory at the root.
C6_CdParent ==
    (call.op = "cd" /\ call.path = DotDot)
        => /\ outcome = "ok"
           /\ dead = 0
           /\ cwd = (IF pre.cwd = <<>> THEN <<>> ELSE Front(pre.cwd))
           /\ ret = str(AbsPath(cwd))

\* C7: ls raises FileNotFoundError for a path that does not exist and
\* NotADirectoryError for one that exists and is not a directory, in both
\* display modes, and returns nothing then; and whatever its outcome, ls leaves
\* the tree as it was.
C7_LsValidation ==
    call.op = "ls"
        => /\ allUnchanged
           /\ ~exists(pre, Path(call.path)) => (outcome = "FileNotFoundError" /\ ret = None)
           /\ is_file(pre, Path(call.path)) => (outcome = "NotADirectoryError" /\ ret = None)

C7_Witness ==
    /\ call.op = "ls" /\ call.display_mode = "detailed" /\ call.path = <<"/", "f">>
    /\ outcome = "NotADirectoryError"

\* C8: cat raises FileNotFoundError for a path that does not exist and
\* IsADirectoryError for a directory, in both read modes, a path that does not
\* exist being reported as such; and whatever its outcome, cat leaves the tree as
\* it was.
C8_CatValidation ==
    call.op = "cat"
        => /\ allUnchanged
           /\ ~exists(pre, Path(call.file)) => (outcome = "FileNotFoundError" /\ ret = None)
           /\ is_dir(pre, Path(call.file)) => (outcome = "IsADirectoryError" /\ ret = None)

C8_Witness ==
    /\ call.op = "cat" /\ call.mode = "bytes" /\ call.file = <<"/", "d">>
    /\ outcome = "IsADirectoryError"

\* C9: rm of an argument it does not refuse raises FileNotFoundError when the
\* resolved path does not exist (also when the argument cannot be resolved,
\* the working directory being gone) and IsADirectoryError when it is a directory
\* and recursive is false; in both cases nothing is removed.
C9_RmValidation ==
    (call.op = "rm" /\ ~rawRefused(call.target) /\ ~resolvesToRoot(call.target))
        => LET resolved == AbsPath(resolve(pre, Path(call.target)).ok)
           IN IF "ok" \notin DOMAIN resolve(pre, Path(call.target))
              THEN outcome = "FileNotFoundError" /\ allUnchanged
              ELSE /\ ~exists(pre, resolved) => (outcome = "FileNotFoundError" /\ allUnchanged)
                   /\ (is_dir(pre, resolved) /\ ~call.recursive)
                          => (outcome = "IsADirectoryError" /\ allUnchanged)

C9_Witness ==
    /\ call.op = "rm" /\ ~call.recursive /\ call.target = <<"c">>
    /\ pre.cwd = <<<<"d">>>>
    /\ outcome = "IsADirectoryError"
    /\ <<<<"d">>, <<"c">>>> \in DOMAIN fs

\* whether the line of a listing is the line of the entry called n
lineNames(line, n) ==
    \/ line = Append(n, "\n")
    \/ /\ Len(line) > Len(n) + 1
       /\ SubSeq(line, Len(line) - Len(n) - 1, Len(line)) = <<" ">> \o Append(n, "\n")

\* C10: a successful rm of a file removes that file and nothing else; a
\* successful rm of a directory removes the directory and all that is below it
\* and nothing else; what is left has the content it had.  Until something is
\* copied or moved, a later ls of the parent directory does not list the name
\* and a later cat of the removed path raises FileNotFoundError.
C10_RmRemovesExactly ==
    /\ (call.op = "rm" /\ outcome = "ok")
           => LET target == resolve(pre, Path(call.target)).ok
                  gone == IF pre.fs[target].kind = "file" THEN {target}
                          ELSE {q \in DOMAIN pre.fs : Len(q) >= Len(target)
                                                      /\ SubSeq(q, 1, Len(target)) = target}
              IN /\ target \in DOMAIN pre.fs
                 /\ pre.fs[target].kind = "dir" => call.recursive
                 /\ DOMAIN fs = DOMAIN pre.fs \ gone
                 /\ \A q \in DOMAIN fs : fs[q] = pre.fs[q]
    /\ (call.op = "ls" /\ outcome = "ok" /\ removed # Nothing
        /\ before(call.path) = [p |-> Front(removed), d |-> 0])
           => \A i \in 1..Len(ret) : ~lineNames(ret[i], Last(removed))
    /\ (call.op = "cat" /\ removed # Nothing
        /\ resolve(pre, Path(call.file)) = [ok |-> removed])
           => outcome = "FileNotFoundError"

C10_Witness ==
    /\ call.op = "ls" /\ outcome = "ok" /\ call.path = <<"/">>
    /\ removed = <<<<"d">>>>
    /\ <<<<"d">>, <<"a">>>> \in DOMAIN InitialTree
    /\ <<<<"d">>, <<"a">>>> \notin DOMAIN fs
    /\ Len(ret) = 2

\* what the tree holds at the absolute path root and below it, by relative path
subtree(tree, root) ==
    [r \in {SubSeq(q, Len(root) + 1, Len(q)) : q \in {q \in DOMAIN tree : IsPrefix(root, q)}}
        |-> tree[root \o r]]

\* where the spec has cp and mv put src: inside dst under the base name of src
\* when dst is an existing directory, dst itself otherwise
finalLocation(src, dst) ==
    IF is_dir(pre, Path(dst)) THEN joinpath(Path(dst), name(Path(src))) ELSE Path(dst)

\* C11: mv of an absent src raises FileNotFoundError and changes nothing; after
\* a successful mv src is no longer at its old location and the moved item, with
\* the content or subtree it had, is at the final location: dst/<base name of
\* src> when dst was an existing directory, dst itself otherwise, the parent
\* directories of the final location existing.
C11_MvMoves ==
    call.op = "mv"
        => /\ ~exists(pre, Path(call.src)) => (outcome = "FileNotFoundError" /\ allUnchanged)
           /\ outcome = "ok"
                  => LET from == before(call.src).p
                         final == finalLocation(call.src, call.dst)
                         to == walk(state, final)
                     IN /\ from \notin DOMAIN fs
                        /\ is_dir(state, parent(final))
                        /\ IsLoc(to) /\ to.d = 0
                        /\ subtree(fs, to.p) = subtree(pre.fs, from)

\* C12: whenever mv raises, whatever the exception, the tree is the tree it
\* found: src is where it was and no file or directory has been created, the
\* parent directories of dst included.
C12_MvFailureLeavesNothing ==
    (call.op = "mv" /\ outcome # "ok") => treeUnchanged

\* C13: cp with recursive=True of a directory src to a dst that is an existing
\* directory or does not exist succeeds, also when a child of src finds a
\* subdirectory of its name at the destination, which it is merged into.
\* Afterwards src is as it was, every entry of the tree is still there, and
\* every entry of src is at the destination with the content it has in src.
C13_CpMergesDirectory ==
    (/\ call.op = "cp" /\ call.recursive
     /\ is_dir(pre, Path(call.src))
     /\ is_dir(pre, Path(call.dst)) \/ ~exists(pre, Path(call.dst)))
        => LET from == before(call.src).p
               to == walk(state, finalLocation(call.src, call.dst))
           IN /\ outcome = "ok"
              /\ subtree(fs, from) = subtree(pre.fs, from)
              /\ \A q \in DOMAIN pre.fs : q \in DOMAIN fs /\ fs[q].kind = pre.fs[q].kind
              /\ IsLoc(to) /\ to.d = 0
              /\ \A r \in DOMAIN subtree(pre.fs, from) :
                    to.p \o r \in DOMAIN fs /\ fs[to.p \o r] = pre.fs[from \o r]

\* C14: cp with recursive=True of a directory src onto a dst that exists and is
\* not a directory raises FileExistsError and leaves the file at dst and the
\* rest of the tree as they were.
C14_CpDirectoryOntoFile ==
    (/\ call.op = "cp" /\ call.recursive
     /\ is_dir(pre, Path(call.src))
     /\ is_file(pre, Path(call.dst)))
        => (outcome = "FileExistsError" /\ allUnchanged)

C14_Witness ==
    /\ call.op = "cp" /\ call.recursive
    /\ call.src = <<"/", "d">> /\ call.dst = <<"/", "f">>
    /\ outcome = "FileExistsError"
    /\ fs[<<<<"f">>>>] = File(utf8_encode(TextF))

\* C15: cp of an absent src raises FileNotFoundError and changes nothing.  After
\* a successful cp of a file src there is a file with the content of src at
\* dst/<base name of src> when dst was an existing directory and at dst itself
\* otherwise, an existing file there being overwritten and the parent
\* directories existing; src is as it was.
C15_CpFile ==
    call.op = "cp"
        => /\ ~exists(pre, Path(call.src)) => (outcome = "FileNotFoundError" /\ allUnchanged)
           /\ (is_file(pre, Path(call.src)) /\ outcome = "ok")
                  => LET from == before(call.src).p
                         final == finalLocation(call.src, call.dst)
                         to == walk(state, final)
                     IN /\ is_dir(state, parent(final))
                        /\ IsLoc(to) /\ to.d = 0
                        /\ fs[to.p] = pre.fs[from]
                        /\ from \in DOMAIN fs /\ fs[from] = pre.fs[from]

\* whether the call just made unpacks the archive that `archived` made
unpacksArchived ==
    /\ archived # Nothing
    /\ call.path_arch = archived.path_arch
    /\ call.op = (IF archived.op = "zip" THEN "unzip" ELSE "untar")

\* C16: zip and tar_dir raise FileNotFoundError for a source that does not exist
\* and NotADirectoryError for one that is not a directory; unzip and untar raise
\* FileNotFoundError for an archive that does not exist; and unzip(A, D2) right
\* after zip(D, A) of an existing directory D leaves below D2 the files and
\* directories D had, file contents equal, as does untar(A, D2) after
\* tar_dir(D, A), below D2/<base name of D>.
C16_ArchiveRoundTrip ==
    /\ call.op \in {"zip", "tar_dir"}
           => /\ ~exists(pre, Path(call.path)) => outcome = "FileNotFoundError"
              /\ is_file(pre, Path(call.path)) => outcome = "NotADirectoryError"
    /\ call.op \in {"unzip", "untar"}
           => /\ ~exists(pre, Path(call.path_arch)) => outcome = "FileNotFoundError"
              /\ unpacksArchived
                     => LET D == archived.root
                            D2 == IF call.op = "unzip" THEN Path(call.res)
                                  ELSE joinpath(Path(call.res), Last(D))
                            to == walk(state, D2)
                        IN /\ outcome = "ok"
                           /\ IsLoc(to) /\ to.d = 0
                           /\ \A r \in DOMAIN subtree(archived.tree, D) :
                                 /\ to.p \o r \in DOMAIN fs
                                 /\ fs[to.p \o r] = archived.tree[D \o r]

\* the character of a code point, for the texts of the tree
chr(c) ==
    CASE c = 97 -> "a" [] c = 98 -> "b" [] c = 104 -> "h" [] c = 66 -> "B" [] c = 32 -> " "
      [] OTHER -> "~"

\* the lines of a text, without their line ends
RECURSIVE splitlines(_)
splitlines(t) ==
    LET ends == {i \in 1..Len(t) : t[i] = LF}
        k == IF ends = {} THEN Len(t) + 1 ELSE CHOOSE i \in ends : \A j \in ends : i <= j
    IN IF t = <<>> THEN <<>>
       ELSE <<[i \in 1..(k - 1) |-> chr(t[i])]>> \o splitlines(SubSeq(t, k + 1, Len(t)))

\* whether the regular expression `pattern`, one of GrepPatterns, compiles
compiles(pattern) == pattern # <<"[">>

\* whether a pattern without special characters is found in the line
found(pattern, line) ==
    \E i \in 0..(Len(line) - Len(pattern)) : SubSeq(line, i + 1, i + Len(pattern)) = pattern

\* "<path>:<line number>:<trimmed line>" for the lines from the i-th on that match
RECURSIVE matchesFrom(_, _, _, _)
matchesFrom(pattern, path, lines, i) ==
    IF i > Len(lines) THEN <<>>
    ELSE (IF found(pattern, strip(lines[i]))
          THEN <<str(Path(path)) \o <<":">> \o digits(i) \o <<":">> \o strip(lines[i])>>
          ELSE <<>>) \o matchesFrom(pattern, path, lines, i + 1)

\* C17: grep with r and ignore_case false, for a pattern that compiles and a
\* file, returns one result for each line of the file that matches and no other,
\* in the order of the lines, each "<file path>:<line number from 1>:<line
\* without surrounding whitespace>"; for a pattern that does not compile it
\* raises the error of the regular-expression engine.
C17_GrepResults ==
    (call.op = "grep" /\ ~call.r /\ ~call.ignore_case)
        => /\ ~compiles(call.pattern) => outcome = "error"
           /\ (compiles(call.pattern) /\ is_file(pre, Path(call.path)))
                  => /\ outcome = "ok"
                     /\ ret # None
                     /\ ret = matchesFrom(call.pattern, call.path,
                                          splitlines(read_text(pre.fs[before(call.path).p].data)), 1)

\* C18: WindowsConsoleService defines every method the service interface
\* declares, so main constructs it and leaves a Container in ctx.obj before
\* every command, whatever the command and its arguments.
C18_StartUpSucceeds ==
    call # Idle => (Interface \subseteq Defined /\ process.obj)

\* the service operation the command `op` is to call
operationOf(op) == IF op = "tar" THEN "tar_dir" ELSE op

\* C19: every command calls exactly one operation of the service, the one of
\* its name, whatever its arguments and the tree; and a failure of the operation
\* that is an OSError is echoed and does not end the program abnormally.
C19_OneOperationPerCommand ==
    call # Idle
        => /\ process.served = <<operationOf(call.op)>>
           /\ outcome \in OSErrors => (process.echoed /\ process.exit = 0)

\* the detailed listing just made, of an existing directory, in which stat()
\* failed for the entry called n
statFailedFor(n) ==
    /\ call.op = "ls" /\ call.display_mode = "detailed"
    /\ is_dir(pre, Path(call.path))
    /\ n \in call.nostat
    /\ Append(before(call.path).p, n) \in childrenBefore(before(call.path))

\* the line format_detailed makes of the entry called n when stat() succeeds
normalLine(n) == format_detailed(pre, Path(call.path), n, {}).line

\* what C20 has in common as stated and as amended: the listing is returned, a
\* warning is logged after the record of the listing, there is one line for
\* each entry of the directory, and the lines of the other entries are the
\* normal ones
listingGoesOn(n) ==
    /\ outcome = "ok"
    /\ log = <<"info", "warning">>
    /\ Len(ret) = Cardinality(childrenBefore(before(call.path)))
    /\ \A q \in childrenBefore(before(call.path)) :
          Last(q) # n => \E i \in 1..Len(ret) : ret[i] = normalLine(Last(q))
    /\ \E i \in 1..Len(ret) : lineNames(ret[i], n)
    /\ allUnchanged

\* C20 as stated: when stat() fails for one entry of a detailed listing, the
\* listing goes on, a warning is logged, and the line of that entry has the type
\* character "-", the size zero and the name of the entry (the model does not
\* tell timestamps apart), the other lines being the normal ones, one line for
\* each entry.
C20_StatFailureDashLine ==
    \A n \in (IF call.op = "ls" THEN call.nostat ELSE {}) :
        statFailedFor(n)
            => /\ listingGoesOn(n)
               /\ \A i \in 1..Len(ret) :
                     lineNames(ret[i], n)
                         => /\ Head(ret[i]) = "-"
                            /\ found(<<" ">> \o rjust(digits(0), SizeWidth) \o <<" ">>, ret[i])

\* C20, amended: when stat() fails for one entry of a detailed listing, the
\* listing goes on, a warning is logged, and the line of that entry is
\* "? ? ? ? <name>" and a newline: question marks for the type and permissions,
\* the size and the date and time; the other lines are the normal ones and
\* there is one line for each entry.
C20_StatFailureQuestionMarks ==
    \A n \in (IF call.op = "ls" THEN call.nostat ELSE {}) :
        statFailedFor(n)
            => /\ listingGoesOn(n)
               /\ \A i \in 1..Len(ret) :
                     lineNames(ret[i], n)
                         => ret[i] = <<"?", " ", "?", " ", "?", " ", "?", " ">> \o n \o <<"\n">>

C20_Witness ==
    /\ call.op = "ls" /\ call.display_mode = "detailed" /\ call.path = <<"/", "d">>
    /\ call.nostat = {<<"a">>}
    /\ outcome = "ok"
    /\ log = <<"info", "warning">>
    /\ Len(ret) = 3
    /\ ret[1] = <<"d", "7", "5", "5", " ">> \o rjust(<<"4", "0", "9", "6">>, SizeWidth)
                    \o <<" ", "T", " ", "c", "\n">>
    /\ ret[2] = <<"?", " ", "?", " ", "?", " ", "?", " ", "a", "\n">>

\* the operations WindowsConsoleService defines
ServiceOperations == {"ls", "cat", "cd", "cp", "mv", "rm"}

\* the call just made failed one of the operation's own checks: the operation
\* logs at the error level there, and nowhere else
failedValidation == outcome # "ok" /\ \E i \in 1..Len(log) : log[i] = "error"

\* C21: every operation of the service logs a record at entry, before any
\* check, an error record at each failed check, and a record at completion, so
\* the log of a successful call begins with the entry record and ends with the
\* completion record, and the log of a call that failed a check begins with the
\* entry record, the error record coming after it.
C21_EntryErrorCompletion ==
    call.op \in ServiceOperations
        => /\ outcome = "ok"
                => (Len(log) >= 2 /\ log[1] = "info" /\ log[Len(log)] = "info")
           /\ failedValidation
                => (Len(log) >= 2 /\ log[1] = "info"
                    /\ \E i \in 2..Len(log) : log[i] = "error")

\* the answer typed at the prompt of the rm command confirms the removal
confirmed(answer) == lowerCodes(stripCodes(answer)) \in Confirming

\* the rm command just given is one the command is to turn down by itself: a
\* directory without -r, a directory with -r and an answer other than the
\* confirming one, or a path that does not exist
turnedDown ==
    \/ is_dir(pre, Path(call.path)) /\ ~call.r
    \/ is_dir(pre, Path(call.path)) /\ call.r /\ ~confirmed(call.answer)
    \/ ~exists(pre, Path(call.path))

\* C22: the rm command calls the rm of the service on a directory only when -r
\* was given and the prompt was answered with the confirming word (trimmed, in
\* any case); for a directory without -r, for any other answer and for a path
\* that does not exist it prints a message and returns normally without calling
\* the service, and the tree is as it was.
C22_RmCommandConfirms ==
    call.op = "rm" /\ "answer" \in DOMAIN call
        => /\ (process.served # <<>> /\ is_dir(pre, Path(call.path)))
                => (call.r /\ confirmed(call.answer))
           /\ turnedDown
                => /\ process.served = <<>>
                   /\ process.echoed
                   /\ process.exit = 0
                   /\ fs = pre.fs

====
